---------------------------- MODULE Spec2Model ----------------------------
(***************************************************************************)
(* LINS (LiDAR-inertial SLAM) fusion node: the measurement synchronisation *)
(* scheduler of LinsFusion (Estimator.cpp).                                *)
(*                                                                         *)
(* Timestamps are integer ticks 1..MaxTime (header.stamp.toSec()).  A      *)
(* buffer (MapRingBuffer, a std::map keyed by timestamp) is the set of its *)
(* keys; a payload is identified by the timestamp it was inserted under.   *)
(* ros::spin() in main dispatches the callbacks one at a time on a single  *)
(* thread, so a callback is enabled only while no other one is running     *)
(* (pc = "idle"); the body of imuCallback is split at its loop heads and   *)
(* calls, and pc is the position inside it.                                *)
(***************************************************************************)
EXTENDS Integers, FiniteSets, Sequences

\* ------------------------------------------------------------------ bounds
\* Sensor timestamps range over 1..MaxTime.
MaxTime == 4

\* ------------------------------------------------------- program constants
\* imuBuf_.allocate(500)
ImuBufSize == 500
\* pclBuf_.allocate(3); outlierBuf_.allocate(3); cloudInfoBuf_.allocate(3)
PclBufSize == 3
OutlierBufSize == 3
CloudInfoBufSize == 3

\* measMap_.end(): the end-of-data sentinel of an upper_bound query.
End == 0
\* What reading measMap_.end()->second yields when the read does not fault.
Garbage == -1

Stamps == 1..MaxTime

VARIABLES
  imuBuf,          \* imuBuf_.measMap_       (keys)
  pclBuf,          \* pclBuf_.measMap_       (keys)
  cloudInfoBuf,    \* cloudInfoBuf_.measMap_ (keys)
  outlierBuf,      \* outlierBuf_.measMap_   (keys)
  time,            \* estimator->getTime(): the estimator cursor
  initialized,     \* estimator->isInitialized()
  scan_time_,      \* LinsFusion::scan_time_
  last_scan_time_, \* LinsFusion::last_scan_time_
  last_imu_time_,  \* LinsFusion::last_imu_time_
  outlierMsg,      \* local outlierMsg: key of the outlier payload read (0: not live)
  cloudInfoMsg,    \* local cloudInfoMsg: key of the scan-info payload read
  imu,             \* local imu: key of the sample read by getLastMeas
  pc,              \* position of the single callback thread
  stampImu,        \* header.stamp of the newest message of each topic
  stampPcl,
  stampInfo,
  stampOutlier,
  skipped,         \* some scan-side topic has left out a tick between two messages
  ret,             \* how the last performStateEstimation call ended
  dropped,         \* <<buffer, key>> erased by the last addMeas on overflow
  consumed,        \* scan times handed to estimator->processPCL, in order
  published,       \* stamps given to pubLaserOdometry.publish, in order
  imuLog,          \* <<sample key, dt>> of each processImu since the last processPCL
  straddler,       \* key of the clipped sample that closed the previous window
  integration,     \* an IntegrationBase object: a record of its data members
  F_buf,           \* the matrices F built by midPointIntegration, in call order
  op,              \* the member function of IntegrationBase called last
  calls            \* number of member functions called since the construction

linsFusion == <<imuBuf, pclBuf, cloudInfoBuf, outlierBuf, time, initialized,
                scan_time_, last_scan_time_, last_imu_time_, outlierMsg,
                cloudInfoMsg, imu, pc, stampImu, stampPcl, stampInfo,
                stampOutlier, skipped, ret, dropped, consumed, published,
                imuLog, straddler>>

integrationVars == <<integration, F_buf, op, calls>>

vars == <<linsFusion, integrationVars>>

buffers == <<imuBuf, pclBuf, cloudInfoBuf, outlierBuf>>
estimatorVars == <<time, initialized>>
members == <<scan_time_, last_scan_time_, last_imu_time_>>
locals == <<outlierMsg, cloudInfoMsg, imu>>
topicStamps == <<stampImu, stampPcl, stampInfo, stampOutlier, skipped>>
history == <<consumed, published, imuLog, straddler>>

\* ---------------------------------------------------------------- helpers
Max(S) == CHOOSE x \in S : \A y \in S : y <= x
Min(S) == CHOOSE x \in S : \A y \in S : x <= y
Min2(a, b) == IF a < b THEN a ELSE b
Last(s) == s[Len(s)]

\* measMap_.upper_bound(t): the first key strictly greater than t, or end().
UpperBound(buf, t) ==
  IF {k \in buf : k > t} = {} THEN End ELSE Min({k \in buf : k > t})

\* MapRingBuffer::addMeas: std::map::insert (an existing key is kept), then
\* the oldest entry is erased while the map holds more than its capacity.
AddMeas(buf, t, size) ==
  LET ins == buf \cup {t}
  IN  IF Cardinality(ins) > size THEN ins \ {Min(ins)} ELSE ins

\* The entry addMeas erases, as <<name, key>>; <<>> when nothing is erased.
AddMeasDropped(name, buf, t, size) ==
  LET ins == buf \cup {t}
  IN  IF Cardinality(ins) > size THEN <<name, Min(ins)>> ELSE <<>>

\* MapRingBuffer::clean(t): erase every entry with key <= t.
Clean(buf, t) == {k \in buf : k > t}

\* MapRingBuffer::getLastTime / getLastMeas: the newest entry.
GetLastTime(buf) == Max(buf)

\* StateEstimator::processImu: the cursor advances by dt.
ProcessImuTime(t, dt) == t + dt

\* StateEstimator::processPCL: the cursor is the scan time afterwards.
ProcessPCLTime(t, scanTime) == scanTime

\* ------------------------------------------------------------------- Init
\* No IntegrationBase object exists: LinsFusion constructs none.
NoIntegration ==
  /\ integration = "unconstructed"
  /\ F_buf = <<>> /\ op = "none" /\ calls = 0

\* LinsFusion after its constructor and initialization().
LinsFusionInit ==
  /\ imuBuf = {} /\ pclBuf = {} /\ cloudInfoBuf = {} /\ outlierBuf = {}
  /\ time = 0 /\ initialized = FALSE
  /\ scan_time_ = 0 /\ last_scan_time_ = 0 /\ last_imu_time_ = 0
  /\ outlierMsg = 0 /\ cloudInfoMsg = 0 /\ imu = 0
  /\ pc = "idle"
  /\ stampImu = 0 /\ stampPcl = 0 /\ stampInfo = 0 /\ stampOutlier = 0
  /\ skipped = FALSE
  /\ ret = "none" /\ dropped = <<>>
  /\ consumed = <<>> /\ published = <<>>
  /\ imuLog = <<>> /\ straddler = 0

Init == LinsFusionInit /\ NoIntegration

\* -------------------------------------------------------------- callbacks
\* Variant: the scan callback also runs the scheduler.
LaserCloudCallback_Triggers ==
  /\ pc = "idle"
  /\ \E t \in Stamps :
       /\ t > stampPcl
       /\ stampPcl' = t
       /\ skipped' = (skipped \/ t # stampPcl + 1)
       /\ pclBuf' = AddMeas(pclBuf, t, PclBufSize)
       /\ dropped' = AddMeasDropped("pcl", pclBuf, t, PclBufSize)
  /\ pc' = "performStateEstimation"
  /\ ret' = "running"
  /\ UNCHANGED <<imuBuf, cloudInfoBuf, outlierBuf, estimatorVars, members, locals,
                 stampImu, stampInfo, stampOutlier, history>>
  /\ UNCHANGED integrationVars

\* Variant: the scan callback is dispatched while another callback runs.
LaserCloudCallback_Concurrent ==
  /\ \E t \in Stamps :
       /\ t > stampPcl
       /\ stampPcl' = t
       /\ skipped' = (skipped \/ t # stampPcl + 1)
       /\ pclBuf' = AddMeas(pclBuf, t, PclBufSize)
       /\ dropped' = AddMeasDropped("pcl", pclBuf, t, PclBufSize)
  /\ UNCHANGED <<imuBuf, cloudInfoBuf, outlierBuf, estimatorVars, members, locals, pc,
                 stampImu, stampInfo, stampOutlier, ret, history>>
  /\ UNCHANGED integrationVars

\* laserCloudCallback: pclBuf_.addMeas(msg, stamp).
LaserCloudCallback ==
  /\ pc = "idle"
  /\ \E t \in Stamps :
       /\ t > stampPcl
       /\ stampPcl' = t
       /\ skipped' = (skipped \/ t # stampPcl + 1)
       /\ pclBuf' = AddMeas(pclBuf, t, PclBufSize)
       /\ dropped' = AddMeasDropped("pcl", pclBuf, t, PclBufSize)
  /\ UNCHANGED <<imuBuf, cloudInfoBuf, outlierBuf, estimatorVars, members, locals, pc,
                 stampImu, stampInfo, stampOutlier, ret, history>>
  /\ UNCHANGED integrationVars

\* laserCloudInfoCallback: cloudInfoBuf_.addMeas(msg, stamp).
LaserCloudInfoCallback ==
  /\ pc = "idle"
  /\ \E t \in Stamps :
       /\ t > stampInfo
       /\ stampInfo' = t
       /\ skipped' = (skipped \/ t # stampInfo + 1)
       /\ cloudInfoBuf' = AddMeas(cloudInfoBuf, t, CloudInfoBufSize)
       /\ dropped' = AddMeasDropped("cloudInfo", cloudInfoBuf, t, CloudInfoBufSize)
  /\ UNCHANGED <<imuBuf, pclBuf, outlierBuf, estimatorVars, members, locals, pc,
                 stampImu, stampPcl, stampOutlier, ret, history>>
  /\ UNCHANGED integrationVars

\* outlierCloudCallback: outlierBuf_.addMeas(msg, stamp).
OutlierCloudCallback ==
  /\ pc = "idle"
  /\ \E t \in Stamps :
       /\ t > stampOutlier
       /\ stampOutlier' = t
       /\ skipped' = (skipped \/ t # stampOutlier + 1)
       /\ outlierBuf' = AddMeas(outlierBuf, t, OutlierBufSize)
       /\ dropped' = AddMeasDropped("outlier", outlierBuf, t, OutlierBufSize)
  /\ UNCHANGED <<imuBuf, pclBuf, cloudInfoBuf, estimatorVars, members, locals, pc,
                 stampImu, stampPcl, stampInfo, ret, history>>
  /\ UNCHANGED integrationVars

\* mapOdometryCallback: converts the pose of the message into locals only.
MapOdometryCallback ==
  /\ pc = "idle"
  /\ UNCHANGED vars

\* imuCallback: imuBuf_.addMeas(imu, stamp); performStateEstimation().
ImuCallback ==
  /\ pc = "idle"
  /\ \E t \in Stamps :
       /\ t > stampImu
       /\ stampImu' = t
       /\ imuBuf' = AddMeas(imuBuf, t, ImuBufSize)
       /\ dropped' = AddMeasDropped("imu", imuBuf, t, ImuBufSize)
  /\ pc' = "performStateEstimation"
  /\ ret' = "running"
  /\ UNCHANGED <<pclBuf, cloudInfoBuf, outlierBuf, estimatorVars, members,
                 locals, stampPcl, stampInfo, stampOutlier, skipped, history>>
  /\ UNCHANGED integrationVars

\* ------------------------------------------------ performStateEstimation
\* getLastTime(x): x is assigned only when the buffer is non-empty.
GetLastTimeOr(buf, old) == IF buf = {} THEN old ELSE GetLastTime(buf)

\* getLastMeas(x): x is assigned only when the buffer is non-empty.
GetLastMeasOr(buf, old) == IF buf = {} THEN old ELSE GetLastTime(buf)

AnyBufferEmpty ==
  imuBuf = {} \/ pclBuf = {} \/ cloudInfoBuf = {} \/ outlierBuf = {}

\* Variant: the early return discards the buffered inertial samples.
PerformNotReady_Discard ==
  /\ pc = "performStateEstimation"
  /\ AnyBufferEmpty
  /\ imuBuf' = {}
  /\ pc' = "idle"
  /\ ret' = "empty"
  /\ UNCHANGED <<pclBuf, cloudInfoBuf, outlierBuf, estimatorVars, members, locals,
                 topicStamps, dropped, history>>
  /\ UNCHANGED integrationVars

\* performStateEstimation, the early return when a buffer is empty.
PerformNotReady ==
  /\ pc = "performStateEstimation"
  /\ AnyBufferEmpty
  /\ pc' = "idle"
  /\ ret' = "empty"
  /\ UNCHANGED <<buffers, estimatorVars, members, locals, topicStamps,
                 dropped, history>>
  /\ UNCHANGED integrationVars

\* Variant: the bootstrap takes the oldest queued scan.
ProcessFirstPointCloud_Oldest ==
  /\ pc = "performStateEstimation"
  /\ ~AnyBufferEmpty
  /\ ~initialized
  /\ scan_time_' = Min(pclBuf)
  /\ outlierMsg' = GetLastMeasOr(outlierBuf, 0)
  /\ cloudInfoMsg' = GetLastMeasOr(cloudInfoBuf, 0)
  /\ imu' = GetLastMeasOr(imuBuf, 0)
  /\ time' = ProcessPCLTime(time, scan_time_')
  /\ initialized' = TRUE
  /\ consumed' = Append(consumed, scan_time_')
  /\ pc' = "processFirstPointCloud"
  /\ UNCHANGED <<buffers, last_scan_time_, last_imu_time_, topicStamps, ret,
                 dropped, published, imuLog, straddler>>
  /\ UNCHANGED integrationVars

\* performStateEstimation while !isInitialized(): processFirstPointCloud()
\* up to and including estimator->processPCL on the newest entries.
ProcessFirstPointCloud ==
  /\ pc = "performStateEstimation"
  /\ ~AnyBufferEmpty
  /\ ~initialized
  /\ scan_time_' = GetLastTimeOr(pclBuf, scan_time_)
  /\ outlierMsg' = GetLastMeasOr(outlierBuf, 0)
  /\ cloudInfoMsg' = GetLastMeasOr(cloudInfoBuf, 0)
  /\ imu' = GetLastMeasOr(imuBuf, 0)
  /\ time' = ProcessPCLTime(time, scan_time_')
  /\ initialized' = TRUE
  /\ consumed' = Append(consumed, scan_time_')
  /\ pc' = "processFirstPointCloud"
  /\ UNCHANGED <<buffers, last_scan_time_, last_imu_time_, topicStamps, ret,
                 dropped, published, imuLog, straddler>>
  /\ UNCHANGED integrationVars

\* Variant: the outlier buffer is not cleaned by the bootstrap.
FirstClean_KeepOutlier ==
  /\ pc = "processFirstPointCloud"
  /\ pclBuf' = Clean(pclBuf, time)
  /\ cloudInfoBuf' = Clean(cloudInfoBuf, time)
  /\ outlierMsg' = 0 /\ cloudInfoMsg' = 0 /\ imu' = 0
  /\ pc' = "idle"
  /\ ret' = "bootstrap"
  /\ UNCHANGED <<imuBuf, outlierBuf, estimatorVars, members, topicStamps,
                 dropped, history>>
  /\ UNCHANGED integrationVars

\* processFirstPointCloud, the three clean calls; then performStateEstimation
\* returns.
FirstClean ==
  /\ pc = "processFirstPointCloud"
  /\ pclBuf' = Clean(pclBuf, time)
  /\ cloudInfoBuf' = Clean(cloudInfoBuf, time)
  /\ outlierBuf' = Clean(outlierBuf, time)
  /\ outlierMsg' = 0 /\ cloudInfoMsg' = 0 /\ imu' = 0
  /\ pc' = "idle"
  /\ ret' = "bootstrap"
  /\ UNCHANGED <<imuBuf, estimatorVars, members, topicStamps, dropped, history>>
  /\ UNCHANGED integrationVars

\* performStateEstimation in Tracking: pclBuf_.getLastTime(last_scan_time_).
PerformTracking ==
  /\ pc = "performStateEstimation"
  /\ ~AnyBufferEmpty
  /\ initialized
  /\ last_scan_time_' = GetLastTimeOr(pclBuf, last_scan_time_)
  /\ pc' = "loop"
  /\ UNCHANGED <<buffers, estimatorVars, scan_time_, last_imu_time_, locals,
                 topicStamps, ret, dropped, history>>
  /\ UNCHANGED integrationVars

\* while (!pclBuf_.empty() && estimator->getTime() < last_scan_time_)
CatchUpLoop ==
  /\ pc = "loop"
  /\ IF pclBuf # {} /\ time < last_scan_time_
       THEN pc' = "processPointClouds" /\ ret' = ret
       ELSE pc' = "idle" /\ ret' = "exhausted"
  /\ UNCHANGED <<buffers, estimatorVars, members, locals, topicStamps,
                 dropped, history>>
  /\ UNCHANGED integrationVars

\* Variant: the newest queued scan is selected instead of the earliest.
NextScan_Newest(buf, t) == GetLastTimeOr(buf, End)

\* pclBuf_.itMeas_ = pclBuf_.measMap_.upper_bound(estimator->getTime())
NextScan(buf, t) == UpperBound(buf, t)

\* Variant: the comparison of the ordering guard is reversed.
GuardAborts_Reversed(lastImu, scanTime) == scanTime < lastImu

\* if (last_imu_time_ < scan_time_) return false;
GuardAborts(lastImu, scanTime) == lastImu < scanTime

\* Reading itMeas_->first / ->second: defined when the iterator points at an
\* entry; at end() the read is undefined and either faults or yields garbage.
DerefOutcomes(its) == IF End \in its THEN {"fault", "garbage"} ELSE {"ok"}

\* processPointClouds up to the ordering guard: the three upper_bound
\* queries, their reads, getLastTime(last_imu_time_) and the guard.
ProcessPointCloudsSelect ==
  /\ pc = "processPointClouds"
  /\ LET pclIt     == NextScan(pclBuf, time)
         outlierIt == UpperBound(outlierBuf, time)
         infoIt    == UpperBound(cloudInfoBuf, time)
     IN \E o \in DerefOutcomes({pclIt, outlierIt, infoIt}) :
          IF o = "fault"
            THEN /\ pc' = "crashed"
                 /\ ret' = "crashed"
                 /\ UNCHANGED <<members, locals>>
            ELSE /\ \E st \in (IF pclIt = End THEN 0..MaxTime ELSE {pclIt}) :
                       scan_time_' = st
                 /\ last_imu_time_' = GetLastTimeOr(imuBuf, last_imu_time_)
                 /\ IF GuardAborts(last_imu_time_', scan_time_')
                      THEN /\ pc' = "idle" /\ ret' = "guard"
                           /\ outlierMsg' = 0 /\ cloudInfoMsg' = 0
                      ELSE /\ pc' = "propagate" /\ ret' = ret
                           /\ outlierMsg' =
                                (IF outlierIt = End THEN Garbage ELSE outlierIt)
                           /\ cloudInfoMsg' =
                                (IF infoIt = End THEN Garbage ELSE infoIt)
                 /\ UNCHANGED <<last_scan_time_, imu>>
  /\ UNCHANGED <<buffers, estimatorVars, topicStamps, dropped, history>>
  /\ UNCHANGED integrationVars

\* imuBuf_.itMeas_ = imuBuf_.measMap_.upper_bound(estimator->getTime())
NextImu(buf, t) == UpperBound(buf, t)

\* Variant: the propagation loop does not compare the cursor with the scan
\* time.
MoreImu_NoTimeCheck == NextImu(imuBuf, time) # End

\* The condition of the propagation loop of processPointClouds.
MoreImu == time < scan_time_ /\ NextImu(imuBuf, time) # End

\* Variant: the step handed to processImu has no length.
ImuDt_Zero(it, scanTime, t) == 0

\* Variant: dt is not clipped at the scan time.
ImuDt_NoClip(it, scanTime, t) == it - t

\* double dt = std::min(imuBuf_.itMeas_->first, scan_time_) - getTime()
ImuDt(it, scanTime, t) == Min2(it, scanTime) - t

\* One iteration of the propagation loop: estimator->processImu(dt, ...).
ProcessImu ==
  /\ pc = "propagate"
  /\ MoreImu
  /\ LET it == NextImu(imuBuf, time)
         dt == ImuDt(it, scan_time_, time)
     IN /\ time' = ProcessImuTime(time, dt)
        /\ imuLog' = Append(imuLog, <<it, dt>>)
  /\ UNCHANGED <<buffers, initialized, members, locals, pc, topicStamps, ret,
                 dropped, consumed, published, straddler>>
  /\ UNCHANGED integrationVars

\* processPointClouds after the propagation loop: imuBuf_.getLastMeas(imu)
\* and estimator->processPCL(scan_time_, imu, ...).
ProcessPCL ==
  /\ pc = "propagate"
  /\ ~MoreImu
  /\ imu' = GetLastMeasOr(imuBuf, 0)
  /\ time' = ProcessPCLTime(time, scan_time_)
  /\ consumed' = Append(consumed, scan_time_)
  /\ straddler' = (IF imuLog # <<>> /\ Last(imuLog)[1] > scan_time_
                     THEN Last(imuLog)[1] ELSE 0)
  /\ imuLog' = <<>>
  /\ pc' = "clean"
  /\ UNCHANGED <<buffers, initialized, members, outlierMsg, cloudInfoMsg,
                 topicStamps, ret, dropped, published>>
  /\ UNCHANGED integrationVars

\* Variant: the inertial buffer is not cleaned.
CleanBuffers_KeepImu ==
  /\ pc = "clean"
  /\ pclBuf' = Clean(pclBuf, time)
  /\ cloudInfoBuf' = Clean(cloudInfoBuf, time)
  /\ outlierBuf' = Clean(outlierBuf, time)
  /\ outlierMsg' = 0 /\ cloudInfoMsg' = 0 /\ imu' = 0
  /\ pc' = "publishTopics"
  /\ UNCHANGED <<imuBuf, estimatorVars, members, topicStamps, ret, dropped,
                 history>>
  /\ UNCHANGED integrationVars

\* Variant: the inertial buffer is cleaned up to the newest sample read.
CleanBuffers_ImuToLast ==
  /\ pc = "clean"
  /\ imuBuf' = Clean(imuBuf, last_imu_time_)
  /\ pclBuf' = Clean(pclBuf, time)
  /\ cloudInfoBuf' = Clean(cloudInfoBuf, time)
  /\ outlierBuf' = Clean(outlierBuf, time)
  /\ outlierMsg' = 0 /\ cloudInfoMsg' = 0 /\ imu' = 0
  /\ pc' = "publishTopics"
  /\ UNCHANGED <<estimatorVars, members, topicStamps, ret, dropped, history>>
  /\ UNCHANGED integrationVars

\* Variant: the scan-side buffers are cleaned up to the newest queued scan.
CleanBuffers_ToLastScan ==
  /\ pc = "clean"
  /\ imuBuf' = Clean(imuBuf, time)
  /\ pclBuf' = Clean(pclBuf, last_scan_time_)
  /\ cloudInfoBuf' = Clean(cloudInfoBuf, last_scan_time_)
  /\ outlierBuf' = Clean(outlierBuf, last_scan_time_)
  /\ outlierMsg' = 0 /\ cloudInfoMsg' = 0 /\ imu' = 0
  /\ pc' = "publishTopics"
  /\ UNCHANGED <<estimatorVars, members, topicStamps, ret, dropped, history>>
  /\ UNCHANGED integrationVars

\* processPointClouds, the four clean calls and return true.
CleanBuffers ==
  /\ pc = "clean"
  /\ imuBuf' = Clean(imuBuf, time)
  /\ pclBuf' = Clean(pclBuf, time)
  /\ cloudInfoBuf' = Clean(cloudInfoBuf, time)
  /\ outlierBuf' = Clean(outlierBuf, time)
  /\ outlierMsg' = 0 /\ cloudInfoMsg' = 0 /\ imu' = 0
  /\ pc' = "publishTopics"
  /\ UNCHANGED <<estimatorVars, members, topicStamps, ret, dropped, history>>
  /\ UNCHANGED integrationVars

\* Variant: one scan per invocation (an if in place of the while).
PublishTopics_ThenReturn ==
  /\ pc = "publishTopics"
  /\ published' = Append(published, scan_time_)
  /\ pc' = "idle"
  /\ ret' = "exhausted"
  /\ UNCHANGED <<buffers, estimatorVars, members, locals, topicStamps,
                 dropped, consumed, imuLog, straddler>>
  /\ UNCHANGED integrationVars

\* Variant: the odometry is stamped with the newest queued scan's time.
PublishTopics_LastScanStamp ==
  /\ pc = "publishTopics"
  /\ published' = Append(published, last_scan_time_)
  /\ pc' = "loop"
  /\ UNCHANGED <<buffers, estimatorVars, members, locals, topicStamps, ret,
                 dropped, consumed, imuLog, straddler>>
  /\ UNCHANGED integrationVars

\* publishTopics(): publishOdometryYZX(scan_time_).
PublishTopics ==
  /\ pc = "publishTopics"
  /\ published' = Append(published, scan_time_)
  /\ pc' = "loop"
  /\ UNCHANGED <<buffers, estimatorVars, members, locals, topicStamps, ret,
                 dropped, consumed, imuLog, straddler>>
  /\ UNCHANGED integrationVars

Next ==
  \/ LaserCloudCallback
  \/ LaserCloudInfoCallback
  \/ OutlierCloudCallback
  \/ MapOdometryCallback
  \/ ImuCallback
  \/ PerformNotReady
  \/ ProcessFirstPointCloud
  \/ FirstClean
  \/ PerformTracking
  \/ CatchUpLoop
  \/ ProcessPointCloudsSelect
  \/ ProcessImu
  \/ ProcessPCL
  \/ CleanBuffers
  \/ PublishTopics

Spec == Init /\ [][Next]_vars

\* A step of performStateEstimation, made by the thread that runs imuCallback.
SchedulerStep ==
  \/ PerformNotReady
  \/ ProcessFirstPointCloud
  \/ FirstClean
  \/ PerformTracking
  \/ CatchUpLoop
  \/ ProcessPointCloudsSelect
  \/ ProcessImu
  \/ ProcessPCL
  \/ CleanBuffers
  \/ PublishTopics

\* The callback thread does not stop inside imuCallback: no statement of
\* performStateEstimation blocks, so its next step is eventually taken.
SpecTermination == Init /\ [][Next]_vars /\ WF_vars(SchedulerStep)

\* ===================================================== IntegrationBase
(***************************************************************************)
(* The preintegration class IntegrationBase (integrationBase.h).           *)
(*                                                                         *)
(* The samples are planar: an acceleration or accelerometer bias is the    *)
(* pair <<x, y>> of a Vector3d whose z is 0, an angular rate or gyroscope  *)
(* bias is the z of a Vector3d whose x and y are 0.  The increment         *)
(* Quaterniond(1, 0, 0, un_gyr(2) * _dt / 2) is drawn with                 *)
(* un_gyr(2) * _dt / 2 in {-1, 0, 1}: the quaternions that occur are then  *)
(* s * (cos(k*45deg), 0, 0, sin(k*45deg)) with s*s in {1, 2}, written      *)
(* [k |-> k, n2 |-> s*s], and every product of the code is exact:          *)
(* delta_p, delta_v and the entries of jacobian are stored as 4 times      *)
(* their value.  Of the 15 x 15 matrices the rows and columns of Idx are   *)
(* kept; for planar samples the other rows of F are zero in these columns, *)
(* so the kept block of F * jacobian is the product of the kept blocks.    *)
(***************************************************************************)
\* ------------------------------------------------------------------ bounds
\* At most MaxCalls calls of push_back, setBa and setBg on one object.
MaxCalls == 2

\* The accelerations acc, the angular rates gyr, the steps dt and the
\* biases given to the constructor, push_back, setBa and setBg.
AccVals == {<<1, 0>>, <<0, 1>>}
GyrVals == {0, 2}
BaVals == {<<0, 0>>, <<1, 0>>}
BgVals == {0, 2}
DtVals == {0, 1, 2}

\* --------------------------------------------------------------- vectors
VAdd(a, b) == <<a[1] + b[1], a[2] + b[2]>>
VSub(a, b) == <<a[1] - b[1], a[2] - b[2]>>
VScale(c, a) == <<c * a[1], c * a[2]>>
VZero == <<0, 0>>

\* The unit vector of axis j.
Unit(j) == IF j = 1 THEN <<1, 0>> ELSE <<0, 1>>

\* The rotation about z by k quarter turns.
Rot(k, a) ==
  CASE k % 4 = 0 -> a
    [] k % 4 = 1 -> <<-a[2], a[1]>>
    [] k % 4 = 2 -> <<-a[1], -a[2]>>
    [] k % 4 = 3 -> <<a[2], -a[1]>>

\* ----------------------------------------------------------- quaternions
\* Quaterniond::Identity()
QIdentity == [k |-> 0, n2 |-> 1]

\* Quaterniond(1, 0, 0, h) for 4 * h = h4 in {-4, 0, 4}.
Quaterniond(h4) ==
  CASE h4 = 0  -> [k |-> 0, n2 |-> 1]
    [] h4 = 4  -> [k |-> 1, n2 |-> 2]
    [] h4 = -4 -> [k |-> 7, n2 |-> 2]

\* Quaternion product p * q: the angles add, the norms multiply.
QMul(p, q) == [k |-> (p.k + q.k) % 8, n2 |-> p.n2 * q.n2]

\* Quaternion * vector and toRotationMatrix() * vector, which Eigen computes
\* without normalising: v + 2w (u x v) + 2 u x (u x v)
\*   = (1 - n2) v + n2 R v, R the rotation by twice the angle of q.
QRot(q, v) == VAdd(VScale(1 - q.n2, v), VScale(q.n2, Rot(q.k, v)))

\* Entry (i, j) of q.toRotationMatrix().
ToRotationMatrix(q, i, j) == QRot(q, Unit(j))[i]

\* delta_q.normalize()
Normalize(q) == [k |-> q.k, n2 |-> 1]

\* -------------------------------------------------------------- matrices
\* The rows and columns kept of the 15 x 15 error state, as <<block, axis>>;
\* a matrix is indexed by their positions in IdxSeq.
IdxSeq == << <<"pos", 1>>, <<"pos", 2>>, <<"vel", 1>>, <<"vel", 2>>,
             <<"att", 3>>, <<"acc", 1>>, <<"acc", 2>>, <<"gyr", 3>> >>
Idx == 1..Len(IdxSeq)
Block(n) == IdxSeq[n][1]
Axis(n) == IdxSeq[n][2]

Kron(i, j) == IF i = j THEN 1 ELSE 0

\* The matrix whose entry (r, c) is f[r, c], as the tuple of its rows.
Row(f, r) ==
  <<f[r, 1], f[r, 2], f[r, 3], f[r, 4], f[r, 5], f[r, 6], f[r, 7], f[r, 8]>>
Matrix(f) ==
  <<Row(f, 1), Row(f, 2), Row(f, 3), Row(f, 4),
    Row(f, 5), Row(f, 6), Row(f, 7), Row(f, 8)>>

\* Matrix<double, 15, 15>::Identity() and ::Zero(), stored as 4 times.
MIdentity == LET E(r, c) == 4 * Kron(r, c) IN Matrix([r \in Idx, c \in Idx |-> E(r, c)])
MZero == LET E(r, c) == 0 IN Matrix([r \in Idx, c \in Idx |-> E(r, c)])

RECURSIVE Dot(_, _, _, _, _)
\* The sum over the first n columns k of A[r][k] * B[k][c].
Dot(A, B, r, c, n) ==
  IF n = 0 THEN 0
  ELSE A[r][n] * B[n][c] + Dot(A, B, r, c, n - 1)

\* The matrix product A * B of two matrices stored as 4 times their value.
MatMul(A, B) ==
  LET E(r, c) == Dot(A, B, r, c, Len(IdxSeq)) \div 4 IN Matrix([r \in Idx, c \in Idx |-> E(r, c)])

\* Column z of the antisymmetric matrix of a: a x e_z.
SkewZ(a) == <<a[2], -a[1]>>

\* ----------------------------------------------------------- constructor
\* IntegrationBase(_acc_0, _gyr_0, _linearized_ba, _linearized_bg)
IntegrationBase(_acc_0, _gyr_0, _linearized_ba, _linearized_bg) ==
  [acc_0 |-> _acc_0, gyr_0 |-> _gyr_0,
   linearized_acc |-> _acc_0, linearized_gyr |-> _gyr_0,
   linearized_ba |-> _linearized_ba, linearized_bg |-> _linearized_bg,
   jacobian |-> MIdentity, covariance |-> MZero,
   sum_dt |-> 0,
   delta_p |-> VZero, delta_q |-> QIdentity, delta_v |-> VZero,
   dt_buf |-> <<>>, acc_buf |-> <<>>, gyr_buf |-> <<>>]

\* --------------------------------------------------- midPointIntegration
\* Variant: the increment of the rotation is built from the rate alone.
HalfAngle_NoDt(_gyr_0, _gyr_1, linearized_bg, _dt) ==
  (_gyr_0 + _gyr_1 - 2 * linearized_bg) * 2

\* 4 * un_gyr(2) * _dt / 2, with un_gyr = 0.5 * (_gyr_0 + _gyr_1) - linearized_bg.
HalfAngle(_gyr_0, _gyr_1, linearized_bg, _dt) ==
  (_gyr_0 + _gyr_1 - 2 * linearized_bg) * _dt

\* Variant: the bias is not subtracted from the acceleration.
UnAcc_NoBias(q, acc, linearized_ba) == QRot(q, acc)

\* un_acc_0 = delta_q * (_acc_0 - linearized_ba) and
\* un_acc_1 = result_delta_q * (_acc_1 - linearized_ba)
UnAcc(q, acc, linearized_ba) == QRot(q, VSub(acc, linearized_ba))

\* Variant: the result is left as zero.
ResultLinearizedBa_Zero(linearized_ba) == VSub(linearized_ba, linearized_ba)

\* result_linearized_ba = linearized_ba
ResultLinearizedBa(linearized_ba) == linearized_ba

\* result_linearized_bg = linearized_bg
ResultLinearizedBg(linearized_bg) == linearized_bg

\* The matrix F of one step, stored as 4 times: a_0_x = _acc_0 - linearized_ba,
\* a_1_x = _acc_1 - linearized_ba, the rotations of delta_q and
\* result_delta_q.
StepF(_dt, a_0_x, a_1_x, delta_q, result_delta_q) ==
  LET A == VAdd(QRot(delta_q, SkewZ(a_0_x)), QRot(result_delta_q, SkewZ(a_1_x)))
      B == QRot(result_delta_q, SkewZ(a_1_x))
      R(i, j) == ToRotationMatrix(delta_q, i, j)
                   + ToRotationMatrix(result_delta_q, i, j)
      E(r, c) ==
        LET i == Axis(r)
            j == Axis(c)
        IN CASE Block(r) = "pos" /\ Block(c) = "pos" -> 4 * Kron(i, j)
             [] Block(r) = "pos" /\ Block(c) = "vel" -> 4 * Kron(i, j) * _dt
             [] Block(r) = "pos" /\ Block(c) = "att" -> -A[i] * _dt * _dt
             [] Block(r) = "pos" /\ Block(c) = "acc" -> -R(i, j) * _dt * _dt
             [] Block(r) = "pos" /\ Block(c) = "gyr" -> -B[i] * _dt * _dt * (-_dt)
             [] Block(r) = "vel" /\ Block(c) = "att" -> -2 * A[i] * _dt
             [] Block(r) = "vel" /\ Block(c) = "vel" -> 4 * Kron(i, j)
             [] Block(r) = "vel" /\ Block(c) = "acc" -> -2 * R(i, j) * _dt
             [] Block(r) = "vel" /\ Block(c) = "gyr" -> -2 * B[i] * _dt * (-_dt)
             [] Block(r) = "att" /\ Block(c) = "att" -> 4
             [] Block(r) = "att" /\ Block(c) = "gyr" -> -4 * _dt
             [] Block(r) = "acc" /\ Block(c) = "acc" -> 4 * Kron(i, j)
             [] Block(r) = "gyr" /\ Block(c) = "gyr" -> 4
             [] OTHER -> 0
  IN Matrix([r \in Idx, c \in Idx |-> E(r, c)])

\* Variant: the running Jacobian is multiplied from the right.
JacobianUpdate_Right(F, jacobian) == MatMul(jacobian, F)

\* jacobian = F * jacobian
JacobianUpdate(F, jacobian) == MatMul(F, jacobian)

\* midPointIntegration with update_jacobian = 1: the results and the matrix F.
MidPointIntegration(_dt, _acc_0, _gyr_0, _acc_1, _gyr_1, delta_p, delta_q, delta_v, linearized_ba, linearized_bg) ==
  LET un_acc_0 == UnAcc(delta_q, _acc_0, linearized_ba)
      result_delta_q ==
        QMul(delta_q, Quaterniond(HalfAngle(_gyr_0, _gyr_1, linearized_bg, _dt)))
      un_acc_1 == UnAcc(result_delta_q, _acc_1, linearized_ba)
      \* 2 * un_acc
      un_acc2 == VAdd(un_acc_0, un_acc_1)
  IN [result_delta_p |->
        VAdd(delta_p, VAdd(VScale(_dt, delta_v), VScale(_dt * _dt, un_acc2))),
      result_delta_q |-> result_delta_q,
      result_delta_v |-> VAdd(delta_v, VScale(2 * _dt, un_acc2)),
      result_linearized_ba |-> ResultLinearizedBa(linearized_ba),
      result_linearized_bg |-> ResultLinearizedBg(linearized_bg),
      F |-> StepF(_dt, VSub(_acc_0, linearized_ba), VSub(_acc_1, linearized_ba),
                  delta_q, result_delta_q)]

\* ------------------------------------------------------------- propagate
\* The call of midPointIntegration made by propagate on the object o.
Step(o, _dt, _acc_1, _gyr_1) ==
  MidPointIntegration(_dt, o.acc_0, o.gyr_0, _acc_1, _gyr_1,
                      o.delta_p, o.delta_q, o.delta_v,
                      o.linearized_ba, o.linearized_bg)

\* propagate(_dt, _acc_1, _gyr_1) on the object o, m being the results of
\* its call of midPointIntegration: the object afterwards.
Propagate(o, m, _dt, _acc_1, _gyr_1) ==
     [o EXCEPT !.jacobian = JacobianUpdate(m.F, o.jacobian),
               !.delta_p = m.result_delta_p,
               !.delta_q = Normalize(m.result_delta_q),
               !.delta_v = m.result_delta_v,
               !.linearized_ba = m.result_linearized_ba,
               !.linearized_bg = m.result_linearized_bg,
               !.sum_dt = o.sum_dt + _dt,
               !.acc_0 = _acc_1,
               !.gyr_0 = _gyr_1]

\* The increment of the rotation is one of the quaternions represented.
Representable(o, _dt, _gyr_1) ==
  HalfAngle(o.gyr_0, _gyr_1, o.linearized_bg, _dt) \in {-4, 0, 4}

\* push_back(dt, acc, gyr): the three histories grow, then propagate.
Push_back ==
  /\ calls < MaxCalls
  /\ \E dt \in DtVals, acc \in AccVals, gyr \in GyrVals :
       /\ Representable(integration, dt, gyr)
       /\ LET o == [integration EXCEPT
                      !.dt_buf = Append(integration.dt_buf, dt),
                      !.acc_buf = Append(integration.acc_buf, acc),
                      !.gyr_buf = Append(integration.gyr_buf, gyr)]
          IN \E m \in {Step(o, dt, acc, gyr)} :
               /\ integration' = Propagate(o, m, dt, acc, gyr)
               /\ F_buf' = Append(F_buf, m.F)
  /\ op' = "push_back"
  /\ calls' = calls + 1
  /\ UNCHANGED linsFusion

\* Variant: the reset of the bias also restarts the velocity delta.
SetBa_Restart ==
  /\ calls < MaxCalls
  /\ \E ba \in BaVals :
       integration' = [integration EXCEPT !.linearized_ba = ba,
                                          !.delta_v = VZero]
  /\ op' = "setBa"
  /\ calls' = calls + 1
  /\ UNCHANGED <<F_buf, linsFusion>>

\* setBa(ba): linearized_ba = ba.
SetBa ==
  /\ calls < MaxCalls
  /\ \E ba \in BaVals :
       integration' = [integration EXCEPT !.linearized_ba = ba]
  /\ op' = "setBa"
  /\ calls' = calls + 1
  /\ UNCHANGED <<F_buf, linsFusion>>

\* setBg(bg): linearized_bg = bg.
SetBg ==
  /\ calls < MaxCalls
  /\ \E bg \in BgVals :
       integration' = [integration EXCEPT !.linearized_bg = bg]
  /\ op' = "setBg"
  /\ calls' = calls + 1
  /\ UNCHANGED <<F_buf, linsFusion>>

\* An object just constructed from any first sample and any biases.
InitIntegration ==
  /\ LinsFusionInit
  /\ \E a \in AccVals, g \in GyrVals, ba \in BaVals, bg \in BgVals :
       integration = IntegrationBase(a, g, ba, bg)
  /\ F_buf = <<>> /\ op = "IntegrationBase" /\ calls = 0

NextIntegration ==
  \/ Push_back
  \/ SetBa
  \/ SetBg

SpecIntegration == InitIntegration /\ [][NextIntegration]_vars

\* ------------------------------------------------------------ properties
bufferSizes == <<ImuBufSize, PclBufSize, CloudInfoBufSize, OutlierBufSize>>

\* The next pending scan: the first scan-buffer entry beyond the cursor.
Pending == UpperBound(pclBuf, time)

\* The newest buffered inertial sample reaches the next pending scan.
Covered == Pending # End /\ imuBuf # {} /\ Max(imuBuf) >= Pending

\* A scan is pending and the buffered inertial data ends before it.
Uncovered == Pending # End /\ ~Covered

\* Positions of the callback thread outside the body of a catch-up iteration.
Between == {"idle", "performStateEstimation", "loop", "processPointClouds"}

StrictlyIncreasing(s) == \A i, j \in 1..Len(s) : i < j => s[i] < s[j]

IsPrefix(s, t) == Len(s) <= Len(t) /\ \A i \in 1..Len(s) : s[i] = t[i]

\* C1 (scheduler ordering guard): in Tracking, while the next pending scan
\* lies beyond the newest buffered inertial sample, no step of the scheduler
\* integrates an inertial sample or consumes a scan, and the scheduler never
\* enters the body of a catch-up iteration; this lasts for as long as the
\* condition does, that is until an inertial sample at or beyond the scan is
\* inserted.
C1_OrderingGuard ==
  [][(initialized /\ pc \in Between /\ Uncovered)
       => /\ time' = time
          /\ consumed' = consumed
          /\ imuLog' = imuLog
          /\ pc' \in Between \cup {"crashed"}]_vars

\* An invocation in Tracking has just been aborted by the ordering guard.
C1_Witness == pc = "idle" /\ ret = "guard" /\ initialized /\ Uncovered

\* C2 (cursor monotonicity): no step of any callback decreases the
\* estimator's current time.
C2_CursorMonotone == [][time' >= time]_vars

\* The cursor has been moved by the bootstrap, by a Tracking consumption and
\* by an integration step.
C2_Witness == Len(consumed) >= 2 /\ pc = "propagate" /\ imuLog # <<>>

\* C3 (scan consumption order): the scan selected in Tracking is the earliest
\* scan-buffer entry beyond the cursor; a consumption hands exactly that one
\* scan to processPCL, it is still buffered and later than every scan consumed
\* before, so the consumed times are strictly increasing.
C3_ScanOrder ==
  /\ []StrictlyIncreasing(consumed)
  /\ [][/\ (pc = "processPointClouds" /\ pc' = "propagate")
             => /\ scan_time_' \in pclBuf
                /\ scan_time_' > time
                /\ \A k \in pclBuf : k > time => scan_time_' <= k
        /\ (initialized /\ consumed' # consumed)
             => /\ consumed' = Append(consumed, scan_time_)
                /\ scan_time_ \in pclBuf
                /\ scan_time_ > Last(consumed)
                /\ pc = "propagate" /\ pc' = "clean"]_vars

\* A Tracking scan has just been consumed while a later scan was queued.
C3_Witness == pc = "clean" /\ Len(consumed) >= 2 /\ Pending # End

\* C4 (eviction after consumption): the clean that ends a Tracking
\* consumption leaves no entry at or before the cursor in any of the four
\* buffers, keeps every entry beyond the cursor, adds nothing, and cleaning
\* again with the same cutoff changes nothing.
C4_EvictionAfterConsumption ==
  [][(pc = "clean" /\ pc' = "publishTopics")
       => \A i \in 1..4 :
            /\ \A k \in buffers'[i] : k > time'
            /\ \A k \in buffers[i] : k > time' => k \in buffers'[i]
            /\ buffers'[i] \subseteq buffers[i]
            /\ Clean(buffers'[i], time') = buffers'[i]]_vars

\* A consumption has been cleaned up and inertial samples and scans beyond
\* the cursor are still buffered.
C4_Witness == pc = "publishTopics" /\ imuBuf # {} /\ pclBuf # {}

\* C5 as stated (bootstrap discard): after the bootstrap none of the four
\* buffers holds an entry older than the bootstrap scan.
C5_BootstrapDiscardsAll ==
  [][(pc = "processFirstPointCloud" /\ pc' = "idle")
       => \A i \in 1..4 : \A k \in buffers'[i] : ~(k < scan_time_)]_vars

\* C5 as amended: after the bootstrap none of the scan, scan-info and outlier
\* buffers holds an entry older than the bootstrap scan; the inertial buffer
\* is left as it was.
C5_BootstrapDiscardsScans ==
  [][(pc = "processFirstPointCloud" /\ pc' = "idle")
       => /\ scan_time_ = Last(consumed)
          /\ \A i \in 2..4 : \A k \in buffers'[i] : ~(k < scan_time_)
          /\ imuBuf' = imuBuf]_vars

\* The bootstrap has returned and an inertial sample older than the
\* bootstrap scan is still buffered.
C5_Witness ==
  /\ pc = "idle" /\ ret = "bootstrap"
  /\ \E k \in imuBuf : k < Last(consumed)

\* C6 (double use of the straddling sample): an integration step whose
\* sample lies beyond the scan time is clipped to dt = scan time - cursor and
\* brings the cursor to the scan time; no sample is integrated twice for one
\* scan; the clean after the consumption keeps that sample; and it is the
\* first sample integrated for the next scan, with
\* dt = min(sample, next scan) - previous scan.
C6_StraddlingSample ==
  /\ [](\A i, j \in 1..Len(imuLog) : i < j => imuLog[i][1] < imuLog[j][1])
  /\ [][/\ (pc = "propagate" /\ imuLog' # imuLog /\ imuLog' # <<>>)
             => (Last(imuLog')[1] > scan_time_
                   => /\ Last(imuLog')[2] = scan_time_ - time
                      /\ time' = scan_time_)
        /\ (pc = "clean" /\ pc' = "publishTopics" /\ straddler # 0)
             => straddler \in imuBuf'
        /\ (straddler # 0 /\ imuLog = <<>> /\ imuLog' # <<>>)
             => imuLog'[1] = <<straddler,
                               Min2(straddler, scan_time_) - Last(consumed)>>]_vars

\* The sample that closed the previous scan's window has been integrated
\* again as the first sample of the next scan's window.
C6_Witness ==
  /\ straddler # 0 /\ pc = "propagate" /\ imuLog # <<>>
  /\ imuLog[1][1] = straddler

\* C7 as stated (catch-up to exhaustion): an invocation in Tracking returns
\* only when no scan beyond the cursor is queued or the next pending scan is
\* not covered by the buffered inertial data.
C7_ExhaustionOrGuard ==
  [][(initialized /\ pc \notin {"idle", "processFirstPointCloud"} /\ pc' = "idle")
       => (Pending' = End \/ ~Covered')]_vars

\* C7 as amended: an invocation in Tracking returns only when the scan-info
\* or the outlier buffer is empty, or no scan beyond the cursor is queued, or
\* the next pending scan is not covered by the buffered inertial data.
C7_ExhaustionGuardOrEmpty ==
  [][(initialized /\ pc \notin {"idle", "processFirstPointCloud"} /\ pc' = "idle")
       => \/ cloudInfoBuf' = {} \/ outlierBuf' = {}
          \/ Pending' = End
          \/ ~Covered']_vars

\* An invocation in Tracking has returned after the catch-up loop ran out of
\* scans, two Tracking scans having been consumed.
C7_Witness == pc = "idle" /\ ret = "exhausted" /\ Len(consumed) >= 3

\* C8 as stated (publication per consumption): the publications are, in
\* order, the consumed scan times; at most the last consumption is still
\* unpublished, and only between its processPCL call and publishTopics.
C8_PublicationPerConsumption ==
  /\ IsPrefix(published, consumed)
  /\ Len(consumed) <= Len(published) + 1
  /\ pc \notin {"processFirstPointCloud", "clean", "publishTopics"}
       => published = consumed

\* C8 as amended: the same for the Tracking consumptions; the bootstrap
\* consumption, the first one, is never published.
C8_PublicationPerTrackingConsumption ==
  LET tracking == IF consumed = <<>> THEN <<>> ELSE Tail(consumed)
  IN  /\ IsPrefix(published, tracking)
      /\ Len(tracking) <= Len(published) + 1
      /\ pc \notin {"clean", "publishTopics"} => published = tracking

\* Two Tracking consumptions have been published.
C8_Witness == pc = "idle" /\ Len(published) >= 2

\* C9 as stated (eviction keyed only off the cursor): an entry leaves a
\* buffer only if its timestamp is at or before the cursor.
C9_EvictionOnlyByCursor ==
  [][\A i \in 1..4 : \A k \in buffers[i] \ buffers'[i] : k <= time']_vars

\* C9 as amended: an entry leaves a buffer only if its timestamp is at or
\* before the cursor, or if it is the oldest entry of a full buffer and a
\* callback inserts one more entry into that buffer.
C9_EvictionByCursorOrOverflow ==
  [][\A i \in 1..4 : \A k \in buffers[i] \ buffers'[i] :
       \/ k <= time'
       \/ /\ pc = "idle"
          /\ Cardinality(buffers[i]) = bufferSizes[i]
          /\ Cardinality(buffers'[i]) = bufferSizes[i]
          /\ k = Min(buffers[i])]_vars

\* The last insertion dropped an entry that lay beyond the cursor.
C9_Witness == dropped # <<>> /\ dropped[2] > time

\* C10 (pull-only scheduling): the scheduler is entered only by the inertial
\* callback, once per inertial arrival, and makes progress only inside it; a
\* scan, scan-info or outlier arrival inserts its entry into its own buffer
\* and leaves the cursor, the initialization flag, the other buffers, the
\* publications and the position of the thread unchanged.
C10_PullOnly ==
  [][/\ (pc' = "performStateEstimation")
          => (pc = "idle" /\ stampImu' # stampImu /\ stampImu' \in imuBuf')
     /\ (stampImu' # stampImu) => (pc = "idle" /\ pc' = "performStateEstimation")
     /\ (pc = "idle" /\ pc' = "idle")
          => UNCHANGED <<time, initialized, consumed, published, imuLog>>
     /\ (stampPcl' # stampPcl)
          => /\ stampPcl' \in pclBuf'
             /\ pc = "idle"
             /\ UNCHANGED <<time, initialized, imuBuf, cloudInfoBuf,
                            outlierBuf, published, consumed, pc>>
     /\ (stampInfo' # stampInfo)
          => /\ stampInfo' \in cloudInfoBuf'
             /\ pc = "idle"
             /\ UNCHANGED <<time, initialized, imuBuf, pclBuf, outlierBuf,
                            published, consumed, pc>>
     /\ (stampOutlier' # stampOutlier)
          => /\ stampOutlier' \in outlierBuf'
             /\ pc = "idle"
             /\ UNCHANGED <<time, initialized, imuBuf, pclBuf, cloudInfoBuf,
                            published, consumed, pc>>]_vars

\* A scan beyond the cursor is queued with its side payloads and covered by
\* inertial data, and the thread is idle: nothing runs until the next
\* inertial arrival.
C10_Witness ==
  /\ pc = "idle" /\ initialized /\ Covered
  /\ cloudInfoBuf # {} /\ outlierBuf # {}
  /\ stampPcl = Pending

\* C11 (mutual exclusion of drain and insertion): while a scheduler
\* invocation is in progress no callback inserts into any of the four
\* buffers: no stream delivers a message, no buffer gains an entry and no
\* entry is dropped by an insertion; a buffer changes only by losing entries
\* to the scheduler's own clean calls.  Every insertion happens while no
\* invocation is running.
C11_MutualExclusion ==
  [][/\ (pc # "idle")
          => /\ topicStamps' = topicStamps
             /\ dropped' = dropped
             /\ \A i \in 1..4 : buffers'[i] \subseteq buffers[i]
     /\ (\E i \in 1..4 : buffers'[i] \ buffers[i] # {}) => pc = "idle"]_vars

\* An invocation is in progress after its clean calls evicted entries, and
\* every stream has delivered a message beyond the cursor's scan.
C11_Witness ==
  /\ pc = "publishTopics" /\ Len(consumed) >= 2
  /\ stampPcl > time /\ stampInfo > time /\ stampOutlier > time

\* -------------------------------------------- properties of IntegrationBase
\* A step of push_back, and a step of setBa or setBg.
IntegrateStep == calls' # calls /\ op' = "push_back"
ResetStep == calls' # calls /\ op' \in {"setBa", "setBg"}

\* The results of midPointIntegration for the sample push_back has just
\* stored, computed from the object before the call.
StepAtStart ==
  MidPointIntegration(Last(integration'.dt_buf), integration.acc_0,
                      integration.gyr_0, Last(integration'.acc_buf),
                      Last(integration'.gyr_buf), integration.delta_p,
                      integration.delta_q, integration.delta_v,
                      integration.linearized_ba, integration.linearized_bg)

\* C12 (bias is frozen during integration): a step of push_back leaves
\* linearized_ba and linearized_bg as they were, so any sequence of integrate
\* steps does; a step that changes a bias is a call of setBa or setBg; and
\* the deltas and the matrix F of a step are the ones computed with the
\* biases stored when the call started.
C12_BiasFrozen ==
  [][/\ IntegrateStep
          => /\ integration'.linearized_ba = integration.linearized_ba
             /\ integration'.linearized_bg = integration.linearized_bg
             /\ integration'.delta_p = StepAtStart.result_delta_p
             /\ integration'.delta_v = StepAtStart.result_delta_v
             /\ integration'.delta_q = Normalize(StepAtStart.result_delta_q)
             /\ Last(F_buf') = StepAtStart.F
     /\ (integration'.linearized_ba # integration.linearized_ba)
          => (calls' # calls /\ op' = "setBa")
     /\ (integration'.linearized_bg # integration.linearized_bg)
          => (calls' # calls /\ op' = "setBg")]_vars

\* An integrate step has run with both biases non-zero, after another call.
C12_Witness ==
  /\ op = "push_back" /\ calls = 2
  /\ integration.linearized_ba # VZero /\ integration.linearized_bg # 0
  /\ integration.delta_v # VZero

\* C13 (bias reset keeps the accumulated delta): a call of setBa or setBg
\* leaves delta_p, delta_v, delta_q, jacobian, covariance, sum_dt, the
\* previous sample acc_0 / gyr_0 and the histories dt_buf, acc_buf, gyr_buf
\* unchanged; setBa leaves linearized_bg and setBg leaves linearized_ba
\* unchanged.
C13_ResetKeepsDelta ==
  [][ResetStep
       => /\ integration'.delta_p = integration.delta_p
          /\ integration'.delta_v = integration.delta_v
          /\ integration'.delta_q = integration.delta_q
          /\ integration'.jacobian = integration.jacobian
          /\ integration'.covariance = integration.covariance
          /\ integration'.sum_dt = integration.sum_dt
          /\ integration'.acc_0 = integration.acc_0
          /\ integration'.gyr_0 = integration.gyr_0
          /\ integration'.dt_buf = integration.dt_buf
          /\ integration'.acc_buf = integration.acc_buf
          /\ integration'.gyr_buf = integration.gyr_buf
          /\ F_buf' = F_buf
          /\ (op' = "setBa")
               => integration'.linearized_bg = integration.linearized_bg
          /\ (op' = "setBg")
               => integration'.linearized_ba = integration.linearized_ba]_vars

\* setBa has just been called on an object that has integrated a sample and
\* holds non-zero deltas and a rotated delta_q.
C13_Witness ==
  /\ op = "setBa" /\ Len(integration.dt_buf) = 1
  /\ integration.delta_v # VZero /\ integration.delta_p # VZero
  /\ integration.delta_q # QIdentity
  /\ integration.jacobian # MIdentity

\* No bias reset since the construction: every call was a push_back.
NoReset == calls = Len(integration.dt_buf)

\* Every sample fed to push_back was a zero-motion sample: its acceleration
\* equals the accelerometer bias and its angular rate less the gyroscope
\* bias is zero.
FedZeroMotion ==
  \A i \in 1..Len(integration.dt_buf) :
    /\ integration.acc_buf[i] = integration.linearized_ba
    /\ integration.gyr_buf[i] = integration.linearized_bg

\* The sample given to the constructor was a zero-motion sample.
ConstructedZeroMotion ==
  /\ integration.linearized_acc = integration.linearized_ba
  /\ integration.linearized_gyr = integration.linearized_bg

AtRest ==
  /\ integration.delta_p = VZero
  /\ integration.delta_v = VZero
  /\ integration.delta_q = QIdentity

\* C14 as stated (zero-motion idempotence): on a freshly constructed object,
\* after any sequence of push_back calls whose samples are zero-motion
\* samples, for any dt, delta_p and delta_v are zero and delta_q is the
\* identity.
C14_ZeroMotion == (NoReset /\ FedZeroMotion) => AtRest

\* C14 as amended: the same when the sample given to the constructor is a
\* zero-motion sample too.
C14_ZeroMotionFromRest ==
  (NoReset /\ ConstructedZeroMotion /\ FedZeroMotion) => AtRest

\* Two zero-motion samples with different non-zero dt have been fed to an
\* object constructed from a zero-motion sample, both biases being non-zero.
C14_Witness ==
  /\ NoReset /\ ConstructedZeroMotion /\ FedZeroMotion
  /\ integration.dt_buf = <<1, 2>>
  /\ integration.linearized_ba # VZero /\ integration.linearized_bg # 0

RECURSIVE OrderedProduct(_, _)
\* F_n * ( ... * (F_2 * (F_1 * Identity))) of the first n matrices of s.
OrderedProduct(s, n) ==
  IF n = 0 THEN MIdentity ELSE MatMul(s[n], OrderedProduct(s, n - 1))

\* C15 (Jacobian composition): the running Jacobian is the ordered product
\* of the matrices F of all integrate steps since the construction, each
\* multiplied from the left, seeded with the identity; after two integrate
\* steps with matrices F1 then F2 it is F2 * F1 * I.
C15_JacobianComposition ==
  /\ integration.jacobian = OrderedProduct(F_buf, Len(F_buf))
  /\ Len(F_buf) = 2
       => integration.jacobian = MatMul(F_buf[2], MatMul(F_buf[1], MIdentity))

\* Two integrate steps have run whose matrices do not commute.
C15_Witness ==
  /\ Len(F_buf) = 2
  /\ MatMul(F_buf[2], F_buf[1]) # MatMul(F_buf[1], F_buf[2])

\* C16 (degenerate dt): a push_back step with dt = 0 leaves delta_q,
\* delta_v, delta_p, the running Jacobian and sum_dt as they were, whatever
\* the sample and the state before.
C16_ZeroDtNoOp ==
  [][(IntegrateStep /\ Last(integration'.dt_buf) = 0)
       => /\ integration'.delta_q = integration.delta_q
          /\ integration'.delta_v = integration.delta_v
          /\ integration'.delta_p = integration.delta_p
          /\ integration'.jacobian = integration.jacobian
          /\ integration'.sum_dt = integration.sum_dt]_vars

\* A step with dt = 0 has just run on an object that had integrated a sample
\* before: its deltas are non-zero, its delta_q is rotated, and the sample
\* of the step has a non-zero bias-compensated acceleration and rate.
C16_Witness ==
  /\ op = "push_back" /\ integration.dt_buf = <<2, 0>>
  /\ integration.delta_v # VZero /\ integration.delta_q # QIdentity
  /\ integration.jacobian # MIdentity
  /\ Last(integration.acc_buf) # integration.linearized_ba
  /\ Last(integration.gyr_buf) # integration.linearized_bg

\* -------------------------------------- properties of LinsFusion, continued
\* C17 (bootstrap selection): an invocation that finds the estimator
\* uninitialized and the four buffers non-empty hands the scan with the
\* greatest timestamp of the scan buffer to processPCL, whatever the newest
\* inertial sample is, integrates no sample, and leaves the estimator
\* initialized with the cursor at that scan's time; before the bootstrap
\* nothing is consumed or integrated; once initialized the estimator stays
\* initialized, so the bootstrap happens at most once.
C17_BootstrapSelection ==
  /\ [](~initialized => (consumed = <<>> /\ imuLog = <<>> /\ time = 0))
  /\ [][/\ (pc = "performStateEstimation" /\ ~initialized /\ ~AnyBufferEmpty)
             => /\ pc' = "processFirstPointCloud"
                /\ initialized'
                /\ scan_time_' = Max(pclBuf)
                /\ time' = Max(pclBuf)
                /\ consumed' = <<Max(pclBuf)>>
                /\ imuLog' = <<>>
        /\ (pc = "processFirstPointCloud")
             => /\ pc' = "idle" /\ ret' = "bootstrap"
                /\ initialized' /\ time' = time
                /\ consumed' = consumed /\ imuLog' = <<>>
        /\ (pc' = "processFirstPointCloud") => ~initialized
        /\ initialized => initialized']_vars

\* The bootstrap has consumed the newest of several queued scans while the
\* newest inertial sample is older than that scan.
C17_Witness ==
  /\ pc = "processFirstPointCloud"
  /\ Cardinality(pclBuf) >= 2
  /\ Max(imuBuf) < scan_time_

\* C18 (positive dt): every processImu call of the propagation loop is
\* given a dt strictly greater than zero.
C18_PositiveDt == \A i \in 1..Len(imuLog) : imuLog[i][2] > 0

\* The propagation loop has integrated two samples for one scan, the second
\* one lying beyond the scan time and clipped to it.
C18_Witness ==
  /\ pc = "propagate" /\ Len(imuLog) >= 2
  /\ Last(imuLog)[1] > scan_time_
  /\ Last(imuLog)[2] < Last(imuLog)[1] - imuLog[Len(imuLog) - 1][1]

RECURSIVE SumDt(_, _)
\* The sum of the dt of the first n entries of an integration log.
SumDt(log, n) == IF n = 0 THEN 0 ELSE log[n][2] + SumDt(log, n - 1)

\* C19 (integration windows tile time exactly): in Tracking, during the
\* propagation for a scan the cursor is the time of the previous consumption
\* plus the dt integrated since; when the scan with time T is handed to
\* processPCL the cursor equals T, so the dt integrated since the previous
\* consumption at T_prev sum to T - T_prev, and the cursor is T afterwards.
C19_WindowsTile ==
  /\ []((pc = "propagate")
          => time = Last(consumed) + SumDt(imuLog, Len(imuLog)))
  /\ [][(pc = "propagate" /\ pc' = "clean")
          => /\ time = scan_time_
             /\ SumDt(imuLog, Len(imuLog)) = scan_time_ - Last(consumed)
             /\ consumed' = Append(consumed, scan_time_)
             /\ time' = scan_time_]_vars

\* The propagation for a scan is complete, it began by integrating again the
\* sample that straddled the previous scan and took two steps.
C19_Witness ==
  /\ pc = "propagate" /\ ~MoreImu
  /\ Len(imuLog) >= 2 /\ imuLog[1][1] = straddler
  /\ time = scan_time_

\* C20 (no read past the end of a buffer): whenever processPointClouds is
\* about to read the entries returned by its three upper_bound queries, the
\* scan buffer, the outlier buffer and the scan-info buffer each hold an
\* entry beyond the cursor, so that no query returned end().
C20_NoReadPastEnd ==
  (pc = "processPointClouds")
    => /\ NextScan(pclBuf, time) # End
       /\ UpperBound(outlierBuf, time) # End
       /\ UpperBound(cloudInfoBuf, time) # End

\* processPointClouds has read outlierBuf_.itMeas_->second or
\* cloudInfoBuf_.itMeas_->second at end() and gone on with what it read.
C20_Witness ==
  pc = "propagate" /\ (outlierMsg = Garbage \/ cloudInfoMsg = Garbage)



\* C21 (side-channel pairing): while every scan-side topic has carried the
\* same stamps (no topic has left out a tick), every processPCL call, the
\* bootstrap one and each Tracking one, is given an outlier payload and a
\* scan-info payload stored under the timestamp of the scan it is given.
C21_SideChannelPairing ==
  (~skipped /\ pc \in {"processFirstPointCloud", "clean"})
    => (outlierMsg = scan_time_ /\ cloudInfoMsg = scan_time_)

\* processPCL has been given a scan together with a side-channel payload of
\* another scan, on topics that carried the same stamps.
C21_Witness ==
  /\ ~skipped
  /\ pc \in {"processFirstPointCloud", "clean"}
  /\ outlierMsg \in Stamps /\ cloudInfoMsg \in Stamps
  /\ (outlierMsg # scan_time_ \/ cloudInfoMsg # scan_time_)

\* A step of performStateEstimation that is not part of a scan consumption:
\* the early return on an empty buffer, the read of last_scan_time_, the
\* test of the catch-up loop, the return of the ordering guard.
NotReadyStep ==
  /\ pc \in {"performStateEstimation", "loop", "processPointClouds"}
  /\ pc' \in {"loop", "processPointClouds", "idle"}

\* C22 (not-ready leaves state unchanged): a scheduler invocation that
\* consumes no scan is made of not-ready steps only, and each of them leaves
\* the cursor, the initialization flag and the four buffers as they were and
\* neither consumes nor publishes; so the invocation returns with all of them
\* as they were when it started.
C22_NotReadyUnchanged ==
  [][NotReadyStep
       => UNCHANGED <<time, initialized, imuBuf, pclBuf, cloudInfoBuf,
                      outlierBuf, consumed, published>>]_vars

\* An invocation in Tracking has returned at the ordering guard without
\* having consumed a scan: nothing was ever consumed after the bootstrap.
C22_Witness ==
  /\ pc = "idle" /\ ret = "guard" /\ initialized
  /\ Len(consumed) = 1 /\ published = <<>>
  /\ pclBuf # {} /\ imuBuf # {}

\* The inertial samples buffered beyond the cursor the propagation loop
\* started from (the time of the previous consumption).
SamplesBeyond == {k \in imuBuf : k > Last(consumed)}

\* The propagation loop has taken each sample at most once, in key order,
\* and only buffered samples beyond the cursor it started from.
DrainBound ==
  /\ \A i \in 1..Len(imuLog) : imuLog[i][1] \in SamplesBeyond
  /\ \A i, j \in 1..Len(imuLog) : i < j => imuLog[i][1] < imuLog[j][1]
  /\ Len(imuLog) <= Cardinality(SamplesBeyond)

\* C23 (scheduler termination): every performStateEstimation call returns
\* (or stops at the fault of a read at end()); while it propagates, the
\* number of processImu calls is at most the number of buffered inertial
\* samples beyond the cursor; every iteration of the catch-up loop that
\* returns true leaves the scan buffer with fewer scans, an iteration that
\* returns false ends the loop, and no scan is inserted meanwhile, so the
\* iterations are at most the buffered scans.
C23_Termination ==
  /\ (pc = "performStateEstimation") ~> (pc \in {"idle", "crashed"})
  /\ [](pc = "propagate" => DrainBound)
  /\ [][/\ (pc = "clean" => Cardinality(pclBuf') < Cardinality(pclBuf))
        /\ (pc # "idle" => pclBuf' \subseteq pclBuf)
        /\ (pc = "processPointClouds"
              => pc' \in {"propagate", "idle", "crashed"})]_vars

\* After an earlier consumption was published, the propagation loop has
\* ended having taken one step for each of the two buffered samples beyond
\* the cursor it started from.
C23_Witness ==
  /\ pc = "propagate" /\ ~MoreImu
  /\ Len(imuLog) = 2 /\ Cardinality(SamplesBeyond) = 2
  /\ Len(published) >= 1 /\ Last(published) = Last(consumed)
  /\ ret = "running"

=============================================================================
